---------------------------- MODULE Spec2Model ----------------------------
(***************************************************************************)
(* A model of src/app.py: the sequence-diagram classifier                  *)
(* (detect_sequence_diagram) and the remote analysis caller with its       *)
(* fallback reports (analyze_image).                                       *)
(*                                                                         *)
(* Python strings are sequences of one-character strings, so that          *)
(* str.lower() and the substring test `k in s` are computed, not assumed.  *)
(* The image is an already decoded image: a record of its size and mode.   *)
(* The image library (PIL) and the remote client (google.generativeai) are *)
(* not part of src/: reading the size and mode of a decoded image is taken *)
(* to succeed, image.save as PNG raises for the modes the PNG writer does  *)
(* not accept, the enhancements of ImageEnhance raise for an image without *)
(* pixels and for the modes Image.blend does not accept, and a remote      *)
(* attempt either returns a text or raises an exception with a message,    *)
(* chosen nondeterministically.                                            *)
(***************************************************************************)
EXTENDS Integers, Sequences, FiniteSets, TLC

(***************************************************************************)
(* Strings                                                                 *)
(***************************************************************************)

\* Python's None, for a value that is otherwise a string: a one-element
\* sequence that no string is (the elements of a string are single characters).
None == <<"None">>

\* Python truthiness of an optional string: None and "" are falsy.
Truthy(s) == s # None /\ s # <<>>

\* The cased capitals up to U+00FF and their str.lower(): A-Z and the
\* Latin-1 capitals U+00C0-U+00DE without the multiplication sign.  The
\* strings of the model hold no character above U+00FF.
UpperChars ==
  <<"A","B","C","D","E","F","G","H","I","J","K","L","M",
    "N","O","P","Q","R","S","T","U","V","W","X","Y","Z",
    "À","Á","Â","Ã","Ä","Å","Æ","Ç","È","É","Ê","Ë","Ì","Í","Î",
    "Ï","Ð","Ñ","Ò","Ó","Ô","Õ","Ö","Ø","Ù","Ú","Û","Ü","Ý","Þ">>

LowerChars ==
  <<"a","b","c","d","e","f","g","h","i","j","k","l","m",
    "n","o","p","q","r","s","t","u","v","w","x","y","z",
    "à","á","â","ã","ä","å","æ","ç","è","é","ê","ë","ì","í","î",
    "ï","ð","ñ","ò","ó","ô","õ","ö","ø","ù","ú","û","ü","ý","þ">>

\* The capitals as a set, and the lowercase letter of each.
UpperSet == {UpperChars[i] : i \in DOMAIN UpperChars}

lower_of ==
  [c \in UpperSet |->
     LowerChars[CHOOSE i \in DOMAIN UpperChars : UpperChars[i] = c]]

\* str.lower() on one character.
lower_char(c) == IF c \in UpperSet THEN lower_of[c] ELSE c

\* str.lower(), character by character (the concatenation makes the result
\* a sequence that is computed once).
lower(s) == <<>> \o [i \in 1..Len(s) |-> lower_char(s[i])]

\* The substring test `needle in hay`.
Contains(hay, needle) ==
  \E i \in 0..(Len(hay) - Len(needle)) :
    \A j \in 1..Len(needle) : hay[i + j] = needle[j]

\* any(keyword in s for keyword in keywords)
any_keyword_in(keywords, s) ==
  \E i \in DOMAIN keywords : Contains(s, keywords[i])

\* The file-name keywords of detect_sequence_diagram, in list order.
seq_keywords ==
  << <<"s","e","q","u","e","n","c","e">>,   \* "sequence"
     <<"s","e","q">>,   \* "seq"
     <<"i","n","t","e","r","a","c","t","i","o","n">>,   \* "interaction"
     <<"c","o","l","l","a","b","o","r","a","t","i","o","n">>,   \* "collaboration"
     <<"m","e","s","s","a","g","e"," ","f","l","o","w">>,   \* "message flow"
     <<"u","m","l">>,   \* "uml"
     <<"s","y","s","t","e","m"," ","f","l","o","w">>,   \* "system flow"
     <<"p","r","o","c","e","s","s"," ","f","l","o","w">> >>   \* "process flow"

\* The prompt keywords of analyze_image, in list order.
seq_prompt_keywords ==
  << <<"s","e","q","u","e","n","c","e">>,   \* "sequence"
     <<"l","i","f","e","l","i","n","e">>,   \* "lifeline"
     <<"m","e","s","s","a","g","e">>,   \* "message"
     <<"p","a","r","t","i","c","i","p","a","n","t">>,   \* "participant"
     <<"a","c","t","o","r">>,   \* "actor"
     <<"i","n","t","e","r","a","c","t","i","o","n">>,   \* "interaction"
     <<"u","m","l">>,   \* "uml"
     <<"d","i","a","g","r","a","m">> >>   \* "diagram"

\* The candidate model identifiers, in the order they are tried.
model_names_to_try ==
  << <<"m","o","d","e","l","s","/","g","e","m","i","n","i","-","2",".","5","-","f","l","a","s","h">>,   \* "models/gemini-2.5-flash"
     <<"m","o","d","e","l","s","/","g","e","m","i","n","i","-","2",".","5","-","p","r","o">>,   \* "models/gemini-2.5-pro"
     <<"m","o","d","e","l","s","/","g","e","m","i","n","i","-","2",".","0","-","f","l","a","s","h","-","e","x","p">>,   \* "models/gemini-2.0-flash-exp"
     <<"m","o","d","e","l","s","/","g","e","m","i","n","i","-","2",".","0","-","f","l","a","s","h">>,   \* "models/gemini-2.0-flash"
     <<"m","o","d","e","l","s","/","g","e","m","i","n","i","-","f","l","a","s","h","-","l","a","t","e","s","t">>,   \* "models/gemini-flash-latest"
     <<"m","o","d","e","l","s","/","g","e","m","i","n","i","-","p","r","o","-","l","a","t","e","s","t">> >>   \* "models/gemini-pro-latest"

\* "Filename suggests sequence diagram"
ReasonFilename ==
  <<"F","i","l","e","n","a","m","e"," ","s","u","g","g","e","s","t","s"," ","s","e",
    "q","u","e","n","c","e"," ","d","i","a","g","r","a","m">>

\* "Wide format typical of sequence diagrams"
ReasonWide ==
  <<"W","i","d","e"," ","f","o","r","m","a","t"," ","t","y","p","i","c","a","l"," ",
    "o","f"," ","s","e","q","u","e","n","c","e"," ","d","i","a","g","r","a","m","s">>

\* "Format suggests technical diagram"
ReasonTechnical ==
  <<"F","o","r","m","a","t"," ","s","u","g","g","e","s","t","s"," ","t","e","c","h",
    "n","i","c","a","l"," ","d","i","a","g","r","a","m">>

\* "User prompt suggests sequence diagram"
ReasonPrompt ==
  <<"U","s","e","r"," ","p","r","o","m","p","t"," ","s","u","g","g","e","s","t","s",
    " ","s","e","q","u","e","n","c","e"," ","d","i","a","g","r","a","m">>

\* "quota"
KwQuota == <<"q","u","o","t","a">>

\* "limit"
KwLimit == <<"l","i","m","i","t">>

\* "404"
Kw404 == <<"4","0","4">>

\* "not found"
KwNotFound == <<"n","o","t"," ","f","o","u","n","d">>

\* "permission"
KwPermission == <<"p","e","r","m","i","s","s","i","o","n">>

\* "forbidden"
KwForbidden == <<"f","o","r","b","i","d","d","e","n">>

\* "Google AI API quota exceeded. The free tier limit has been reached. Please:\n1. 
\*  Wait for quota to reset (usually after some time)\n2. Check your billing at http
\*  s://ai.dev/usage\n3. Consider upgrading to a paid plan\n\nError: "
QuotaPrefix ==
  <<"G","o","o","g","l","e"," ","A","I"," ","A","P","I"," ","q","u","o","t","a"," ",
    "e","x","c","e","e","d","e","d","."," ","T","h","e"," ","f","r","e","e"," ","t",
    "i","e","r"," ","l","i","m","i","t"," ","h","a","s"," ","b","e","e","n"," ","r",
    "e","a","c","h","e","d","."," ","P","l","e","a","s","e",":","\n","1","."," ","W",
    "a","i","t"," ","f","o","r"," ","q","u","o","t","a"," ","t","o"," ","r","e","s",
    "e","t"," ","(","u","s","u","a","l","l","y"," ","a","f","t","e","r"," ","s","o",
    "m","e"," ","t","i","m","e",")","\n","2","."," ","C","h","e","c","k"," ","y","o",
    "u","r"," ","b","i","l","l","i","n","g"," ","a","t"," ","h","t","t","p","s",":",
    "/","/","a","i",".","d","e","v","/","u","s","a","g","e","\n","3","."," ","C","o",
    "n","s","i","d","e","r"," ","u","p","g","r","a","d","i","n","g"," ","t","o"," ",
    "a"," ","p","a","i","d"," ","p","l","a","n","\n","\n","E","r","r","o","r",":"," ">>

\* "Model "
ModelPrefix == <<"M","o","d","e","l"," ">>

\* " not available. Trying next model..."
NotAvailableTrying ==
  <<" ","n","o","t"," ","a","v","a","i","l","a","b","l","e","."," ","T","r","y","i",
    "n","g"," ","n","e","x","t"," ","m","o","d","e","l",".",".",".">>

\* " not available (404 error)."
NotAvailable404 ==
  <<" ","n","o","t"," ","a","v","a","i","l","a","b","l","e"," ","(","4","0","4"," ",
    "e","r","r","o","r",")",".">>

\* "API key permission denied. Check if your API key has vision capabilities enabled
\*   at Google AI Studio."
PermissionText ==
  <<"A","P","I"," ","k","e","y"," ","p","e","r","m","i","s","s","i","o","n"," ","d",
    "e","n","i","e","d","."," ","C","h","e","c","k"," ","i","f"," ","y","o","u","r",
    " ","A","P","I"," ","k","e","y"," ","h","a","s"," ","v","i","s","i","o","n"," ",
    "c","a","p","a","b","i","l","i","t","i","e","s"," ","e","n","a","b","l","e","d",
    " ","a","t"," ","G","o","o","g","l","e"," ","A","I"," ","S","t","u","d","i","o",
    ".">>

\* "Error with model "
ErrorWithModel == <<"E","r","r","o","r"," ","w","i","t","h"," ","m","o","d","e","l"," ">>

\* ": "
ColonSpace == <<":"," ">>

(***************************************************************************)
(* Input strings of the model                                              *)
(***************************************************************************)

\* "photo.png"
FilePhoto == <<"p","h","o","t","o",".","p","n","g">>

\* "Login_SEQ.png"
FileLoginSeq == <<"L","o","g","i","n","_","S","E","Q",".","p","n","g">>

\* "SÉQUENCE.png": lowercased it is "séquence.png", which holds no keyword.
FileSequenceAccent ==
  <<"S","É","Q","U","E","N","C","E",".","p","n","g">>

\* "Sequence-01.jpg"
FileSequence == <<"S","e","q","u","e","n","c","e","-","0","1",".","j","p","g">>

\* "user interaction.png"
FileInteraction ==
  <<"u","s","e","r"," ","i","n","t","e","r","a","c","t","i","o","n",".","p","n","g">>

\* "COLLABORATION.bmp"
FileCollaboration == <<"C","O","L","L","A","B","O","R","A","T","I","O","N",".","b","m","p">>

\* "Message Flow.png"
FileMessageFlow == <<"M","e","s","s","a","g","e"," ","F","l","o","w",".","p","n","g">>

\* "order_uml.gif"
FileUml == <<"o","r","d","e","r","_","u","m","l",".","g","i","f">>

\* "system flow v2.png"
FileSystemFlow == <<"s","y","s","t","e","m"," ","f","l","o","w"," ","v","2",".","p","n","g">>

\* "Process Flow.png"
FileProcessFlow == <<"P","r","o","c","e","s","s"," ","F","l","o","w",".","p","n","g">>

\* "Describe this image"
PromptDescribe ==
  <<"D","e","s","c","r","i","b","e"," ","t","h","i","s"," ","i","m","a","g","e">>

\* "Name every Lifeline"
PromptLifeline ==
  <<"N","a","m","e"," ","e","v","e","r","y"," ","L","i","f","e","l","i","n","e">>

\* "Is there any text in this image?"
PromptText ==
  <<"I","s"," ","t","h","e","r","e"," ","a","n","y"," ","t","e","x","t"," ","i","n",
    " ","t","h","i","s"," ","i","m","a","g","e","?">>

\* "Show the SEQUENCE"
PromptSequence ==
  <<"S","h","o","w"," ","t","h","e"," ","S","E","Q","U","E","N","C","E">>

\* "List each message"
PromptMessage == <<"L","i","s","t"," ","e","a","c","h"," ","m","e","s","s","a","g","e">>

\* "Who is a participant?"
PromptParticipant ==
  <<"W","h","o"," ","i","s"," ","a"," ","p","a","r","t","i","c","i","p","a","n","t",
    "?">>

\* "Find the Actor"
PromptActor == <<"F","i","n","d"," ","t","h","e"," ","A","c","t","o","r">>

\* "Describe the interaction"
PromptInteraction ==
  <<"D","e","s","c","r","i","b","e"," ","t","h","e"," ","i","n","t","e","r","a","c",
    "t","i","o","n">>

\* "Is this UML?"
PromptUml == <<"I","s"," ","t","h","i","s"," ","U","M","L","?">>

\* "Explain the diagram"
PromptDiagram ==
  <<"E","x","p","l","a","i","n"," ","t","h","e"," ","d","i","a","g","r","a","m">>

\* "Explain the diagrm"
PromptDiagrm ==
  <<"E","x","p","l","a","i","n"," ","t","h","e"," ","d","i","a","g","r","m">>

\* "Extract all text and labels from this diagram"
PromptExtract ==
  <<"E","x","t","r","a","c","t"," ","a","l","l"," ","t","e","x","t"," ","a","n","d",
    " ","l","a","b","e","l","s"," ","f","r","o","m"," ","t","h","i","s"," ","d","i",
    "a","g","r","a","m">>

\* "Custom prompt"
CustomPromptOption ==
  <<"C","u","s","t","o","m"," ","p","r","o","m","p","t">>

\* "AIza-key"
ApiKeyValue ==
  <<"A","I","z","a","-","k","e","y">>

\* "image_analysis_"
DownloadPrefix ==
  <<"i","m","a","g","e","_","a","n","a","l","y","s","i","s","_">>

\* ".txt"
DotTxt ==
  <<".","t","x","t">>

\* "Two participants exchange a login request."
TextAnswer ==
  <<"T","w","o"," ","p","a","r","t","i","c","i","p","a","n","t","s"," ","e","x","c",
    "h","a","n","g","e"," ","a"," ","l","o","g","i","n"," ","r","e","q","u","e","s",
    "t",".">>

\* "429 Quota exceeded"
ErrQuota == <<"4","2","9"," ","Q","u","o","t","a"," ","e","x","c","e","e","d","e","d">>

\* "Rate LIMIT reached"
ErrLimit == <<"R","a","t","e"," ","L","I","M","I","T"," ","r","e","a","c","h","e","d">>

\* "404 model is not supported"
Err404 ==
  <<"4","0","4"," ","m","o","d","e","l"," ","i","s"," ","n","o","t"," ","s","u","p",
    "p","o","r","t","e","d">>

\* "Model Not Found"
ErrNotFound == <<"M","o","d","e","l"," ","N","o","t"," ","F","o","u","n","d">>

\* "403 Permission denied"
ErrPermission ==
  <<"4","0","3"," ","P","e","r","m","i","s","s","i","o","n"," ","d","e","n","i","e",
    "d">>

\* "Forbidden"
ErrForbidden == <<"F","o","r","b","i","d","d","e","n">>

\* "500 Internal error"
ErrOther == <<"5","0","0"," ","I","n","t","e","r","n","a","l"," ","e","r","r","o","r">>

\* "404 Forbidden"
Err404Forbidden == <<"4","0","4"," ","F","o","r","b","i","d","d","e","n">>

\* "Permission denied: quota not found"
ErrPermissionQuota ==
  <<"P","e","r","m","i","s","s","i","o","n"," ","d","e","n","i","e","d",":"," ","q",
    "u","o","t","a"," ","n","o","t"," ","f","o","u","n","d">>

(***************************************************************************)
(* Inputs of the model                                                     *)
(***************************************************************************)

\* The images given to the classifier alone: every width up to MaxWidth, and
\* the heights 0, 1, 100 and every height from 145 to MaxHeight (the tests
\* on the height are at 150 and 200).
MaxWidth == 310

MaxHeight == 202

Heights == {0, 1, 100} \cup 145..MaxHeight

\* File names: absent, empty, without a keyword (one of them with an accented
\* capital inside "SEQUENCE"), and one for each keyword.
PlainFileNames == {None, <<>>, FilePhoto, FileSequenceAccent}

KeywordFileNames ==
  {FileLoginSeq, FileSequence, FileInteraction, FileCollaboration,
   FileMessageFlow, FileUml, FileSystemFlow, FileProcessFlow}

FileNames == {None, FilePhoto, FileLoginSeq}

Prompts == {<<>>, PromptDescribe, PromptLifeline}

\* The prompts given to the classification step alone: absent, empty,
\* without a keyword (one a letter short of "diagram"), and one for each
\* keyword of seq_prompt_keywords.
PlainPrompts == {None, <<>>, PromptDescribe, PromptText, PromptDiagrm}

KeywordPrompts ==
  {PromptSequence, PromptLifeline, PromptMessage, PromptParticipant,
   PromptActor, PromptInteraction, PromptUml, PromptDiagram}

\* <<width, height>> of the images given to analyze_image.
ImageSizes == {<<600, 800>>, <<300, 200>>, <<1920, 1080>>}

\* The modes of the images given to analyze_image: main, its only caller,
\* hands on an RGB or an L image.
Modes == {"RGB", "L"}

\* The images of the calls that end in the fallback path: every size up to
\* MaxReportWidth x MaxReportHeight (the aspect ratios around 0.7, 0.9, 1.1
\* and 1.5), and sizes whose pixel counts lie on and around 640 * 480,
\* 1920 * 1080 and 4 * 1024 * 1024.
MaxReportWidth == 17

MaxReportHeight == 12

ThresholdSizes ==
  {<<307199, 1>>, <<307200, 1>>, <<307201, 1>>,
   <<639, 480>>, <<640, 480>>, <<480, 640>>, <<641, 480>>,
   <<2073599, 1>>, <<2073600, 1>>, <<2073601, 1>>,
   <<1919, 1080>>, <<1920, 1080>>, <<1080, 1920>>, <<1440, 1440>>,
   <<1, 4194303>>, <<1, 4194304>>, <<1, 4194305>>,
   <<2047, 2048>>, <<2048, 2048>>, <<2048, 2049>>, <<4096, 1024>>}

ReportSizes ==
  ((0..MaxReportWidth) \X (0..MaxReportHeight)) \cup ThresholdSizes

\* The modes of mode_descriptions and one it does not list.
ReportModes == {"RGB", "RGBA", "L", "CMYK", "P", "HSV", "LA"}

\* What main works on.  The uploader holds no file or a file with a name,
\* the size and mode Image.open reads from it, and whether Image.open and the
\* conversion succeed on it.
ApiKeys == {None, <<>>, ApiKeyValue}

NoFile == [name |-> None]

UploadedFiles ==
  {[name |-> FilePhoto, width |-> 600, height |-> 800, mode |-> m,
    format |-> "PNG", readable |-> TRUE] :
     m \in {"RGB", "RGBA", "L", "CMYK", "P"}}
  \cup
  {[name |-> FileLoginSeq, width |-> 300, height |-> 200, mode |-> "RGBA",
    format |-> "PNG", readable |-> TRUE],
   [name |-> FileLoginSeq, width |-> 300, height |-> 200, mode |-> "RGB",
    format |-> "JPEG", readable |-> TRUE],
   [name |-> FilePhoto, width |-> 0, height |-> 0, mode |-> "none",
    format |-> "none", readable |-> FALSE]}

PromptOptions == {CustomPromptOption, PromptExtract}

CustomPrompts == {<<>>, PromptLifeline}

\* No image has been opened.
NoImage == [width |-> 0, height |-> 0, mode |-> "none"]

\* The result area shows nothing.
NothingDisplayed == [kind |-> "nothing"]

\* The modes Pillow's PNG writer accepts; image.save(..., format='PNG')
\* raises OSError("cannot write mode <mode> as PNG") for any other mode.
PngModes == {"1", "L", "LA", "I", "I;16", "P", "RGB", "RGBA"}

\* The modes of the model that are not written as PNG, as texts.
mode_text == [CMYK |-> <<"C","M","Y","K">>, HSV |-> <<"H","S","V">>]

\* "cannot write mode "
CannotWriteMode ==
  <<"c","a","n","n","o","t"," ","w","r","i","t","e"," ","m","o","d","e"," ">>

\* " as PNG"
AsPng == <<" ","a","s"," ","P","N","G">>

\* str(second_error) when image.save raises.
save_error(mode) == CannotWriteMode \o mode_text[mode] \o AsPng

\* What a remote attempt can do: return a text (possibly empty) or raise.
Texts == {<<>>, TextAnswer}

ErrorMessages ==
  {ErrQuota, ErrLimit, Err404, ErrNotFound, ErrPermission, ErrForbidden,
   ErrOther, Err404Forbidden, ErrPermissionQuota}

Outcomes ==
  [ok : {TRUE}, text : Texts] \cup [ok : {FALSE}, text : ErrorMessages]

\* The outcome of no attempt yet.
NoOutcome == [ok |-> FALSE, text |-> None]

\* A remote service whose answers are fixed beforehand: the first `failures`
\* calls raise `failure`, every later call does `final`.
MaxFailures == 12

Unscripted == [scripted |-> FALSE]

Scripts ==
  [scripted : {TRUE},
   failures : 0..MaxFailures,
   failure : {Err404, ErrOther},
   final : {[ok |-> TRUE, text |-> TextAnswer],
            [ok |-> FALSE, text |-> ErrQuota],
            [ok |-> FALSE, text |-> ErrPermission]}]

ScriptOutcome(script, i) ==
  IF i =< script.failures
    THEN [ok |-> FALSE, text |-> script.failure]
    ELSE script.final

\* A remote service that refuses the first call.
RefusingScripts ==
  [scripted : {TRUE}, failures : {0}, failure : {ErrOther},
   final : {[ok |-> FALSE, text |-> ErrQuota],
            [ok |-> FALSE, text |-> ErrPermission]}]

\* The calls of a caller that calls analyze_image three times: a first call,
\* another call, and the first call again against the same answers.
FirstCalls ==
  {[image |-> [width |-> 600, height |-> 800, mode |-> "RGB"],
    prompt |-> p, file_name |-> FilePhoto, remote |-> s] :
     p \in {PromptDescribe, PromptLifeline}, s \in Scripts}

OtherCalls ==
  {[image |-> [width |-> 1920, height |-> 1080, mode |-> "L"],
    prompt |-> PromptDescribe, file_name |-> FileLoginSeq,
    remote |-> [scripted |-> TRUE, failures |-> k, failure |-> ErrOther,
                final |-> [ok |-> FALSE, text |-> ErrQuota]]] :
     k \in {0, 3, MaxFailures}}
  \cup
  {[image |-> [width |-> 600, height |-> 800, mode |-> "CMYK"],
    prompt |-> <<>>, file_name |-> None,
    remote |-> [scripted |-> TRUE, failures |-> k, failure |-> Err404,
                final |-> [ok |-> TRUE, text |-> <<>>]]] :
     k \in {1, 4}}

\* No caller: a single call.
NoCalls == [run |-> 0]

\* No run is remembered.
NoRun == [kind |-> "none"]

(***************************************************************************)
(* detect_sequence_diagram                                                 *)
(***************************************************************************)

\* width / height as the pair <<numerator, denominator>>; 1 when height is 0.
\* The float quotient of two image dimensions compares with the literals
\* 1.5, 1.2, 0.7, 0.9 and 1.1 exactly as the rational does: the quotient is
\* correctly rounded, and a quotient different from n/10 differs from it by
\* at least 1/(10*height), far more than the rounding error.
aspect_ratio_of(width, height) ==
  IF height > 0 THEN <<width, height>> ELSE <<1, 1>>

\* ratio > tenths/10
RatioGt(ratio, tenths) == 10 * ratio[1] > tenths * ratio[2]

\* ratio < tenths/10
RatioLt(ratio, tenths) == 10 * ratio[1] < tenths * ratio[2]

\* detect_sequence_diagram with the file-name test after the size tests.
detect_sequence_diagram_size_first(img, fname) ==
  LET file_name_lower == IF Truthy(fname) THEN lower(fname) ELSE <<>>
      width == img.width
      height == img.height
      aspect_ratio == aspect_ratio_of(width, height)
  IN  IF RatioGt(aspect_ratio, 15) /\ height > 200
        THEN <<TRUE, ReasonWide>>
      ELSE IF RatioGt(aspect_ratio, 12) /\ height > 150
        THEN <<TRUE, ReasonTechnical>>
      ELSE IF any_keyword_in(seq_keywords, file_name_lower)
        THEN <<TRUE, ReasonFilename>>
      ELSE <<FALSE, None>>

\* detect_sequence_diagram with `height >= 200` in the wide-format test.
detect_sequence_diagram_inclusive(img, fname) ==
  LET file_name_lower == IF Truthy(fname) THEN lower(fname) ELSE <<>>
      width == img.width
      height == img.height
      aspect_ratio == aspect_ratio_of(width, height)
  IN  IF any_keyword_in(seq_keywords, file_name_lower)
        THEN <<TRUE, ReasonFilename>>
      ELSE IF RatioGt(aspect_ratio, 15) /\ height >= 200
        THEN <<TRUE, ReasonWide>>
      ELSE IF RatioGt(aspect_ratio, 12) /\ height > 150
        THEN <<TRUE, ReasonTechnical>>
      ELSE <<FALSE, None>>

\* The pair (is_sequence_diagram, reason) the function returns.
detect_sequence_diagram(img, fname) ==
  LET file_name_lower == IF Truthy(fname) THEN lower(fname) ELSE <<>>
      width == img.width
      height == img.height
      aspect_ratio == aspect_ratio_of(width, height)
  IN  IF any_keyword_in(seq_keywords, file_name_lower)
        THEN <<TRUE, ReasonFilename>>
      ELSE IF RatioGt(aspect_ratio, 15) /\ height > 200
        THEN <<TRUE, ReasonWide>>
      ELSE IF RatioGt(aspect_ratio, 12) /\ height > 150
        THEN <<TRUE, ReasonTechnical>>
      ELSE <<FALSE, None>>

(***************************************************************************)
(* analyze_image: classification, prompt override, error handlers          *)
(***************************************************************************)

\* prompt_override with the test `and not is_sequence_diagram` forgotten.
prompt_override_regardless(detected, p) ==
  LET prompt_lower == IF Truthy(p) THEN lower(p) ELSE <<>>
      prompt_suggests_seq == any_keyword_in(seq_prompt_keywords, prompt_lower)
  IN  IF prompt_suggests_seq
        THEN <<TRUE, ReasonPrompt>>
        ELSE detected

\* The prompt override: a prompt keyword turns a negative detection into a
\* positive one; `detected` is the pair detect_sequence_diagram returned.
prompt_override(detected, p) ==
  LET prompt_lower == IF Truthy(p) THEN lower(p) ELSE <<>>
      prompt_suggests_seq == any_keyword_in(seq_prompt_keywords, prompt_lower)
  IN  IF prompt_suggests_seq /\ ~detected[1]
        THEN <<TRUE, ReasonPrompt>>
        ELSE detected

\* The fixed prompt sent for a sequence diagram ("This is a UML sequence
\* diagram. Please analyze it in detail and provide: ..."), as one token.
specialized_prompt == <<"specialized_prompt">>

\* prompt_sent with the user's prompt sent whatever the classification.
prompt_sent_user(is_seq, p) == p

\* The first element of the list handed to generate_content.
prompt_sent(is_seq, p) == IF is_seq THEN specialized_prompt ELSE p

\* first_error_handler with the `break` of the quota branch forgotten.
first_error_handler_nobreak(model_name, first_error) ==
  LET error_msg == lower(first_error)
  IN  IF Contains(error_msg, KwQuota) \/ Contains(error_msg, KwLimit)
        THEN [api_error |-> QuotaPrefix \o first_error, break |-> FALSE]
      ELSE IF Contains(error_msg, Kw404) \/ Contains(error_msg, KwNotFound)
        THEN [api_error |-> ModelPrefix \o model_name \o NotAvailableTrying,
              break |-> FALSE]
      ELSE IF Contains(error_msg, KwPermission) \/ Contains(error_msg, KwForbidden)
        THEN [api_error |-> PermissionText, break |-> TRUE]
      ELSE [api_error |-> ErrorWithModel \o model_name \o ColonSpace \o first_error,
            break |-> FALSE]

\* first_error_handler with the permission test placed before the 404 test.
first_error_handler_permission_first(model_name, first_error) ==
  LET error_msg == lower(first_error)
  IN  IF Contains(error_msg, KwQuota) \/ Contains(error_msg, KwLimit)
        THEN [api_error |-> QuotaPrefix \o first_error, break |-> TRUE]
      ELSE IF Contains(error_msg, KwPermission) \/ Contains(error_msg, KwForbidden)
        THEN [api_error |-> PermissionText, break |-> TRUE]
      ELSE IF Contains(error_msg, Kw404) \/ Contains(error_msg, KwNotFound)
        THEN [api_error |-> ModelPrefix \o model_name \o NotAvailableTrying,
              break |-> FALSE]
      ELSE [api_error |-> ErrorWithModel \o model_name \o ColonSpace \o first_error,
            break |-> FALSE]

\* The except-branch of the image-object attempt: the api_error it records
\* and whether it breaks out of the candidate loop.
first_error_handler(model_name, first_error) ==
  LET error_msg == lower(first_error)
  IN  IF Contains(error_msg, KwQuota) \/ Contains(error_msg, KwLimit)
        THEN [api_error |-> QuotaPrefix \o first_error, break |-> TRUE]
      ELSE IF Contains(error_msg, Kw404) \/ Contains(error_msg, KwNotFound)
        THEN [api_error |-> ModelPrefix \o model_name \o NotAvailableTrying,
              break |-> FALSE]
      ELSE IF Contains(error_msg, KwPermission) \/ Contains(error_msg, KwForbidden)
        THEN [api_error |-> PermissionText, break |-> TRUE]
      ELSE [api_error |-> ErrorWithModel \o model_name \o ColonSpace \o first_error,
            break |-> FALSE]

\* second_error_handler recording the text of the first handler's 404 branch.
second_error_handler_first_text(model_name, second_error) ==
  LET error_msg == lower(second_error)
  IN  IF Contains(error_msg, KwQuota) \/ Contains(error_msg, KwLimit)
        THEN [api_error |-> QuotaPrefix \o second_error, break |-> TRUE]
      ELSE IF Contains(error_msg, Kw404) \/ Contains(error_msg, KwNotFound)
        THEN [api_error |-> ModelPrefix \o model_name \o NotAvailableTrying,
              break |-> FALSE]
      ELSE [api_error |-> ErrorWithModel \o model_name \o ColonSpace \o second_error,
            break |-> FALSE]

\* The except-branch of the byte-buffer attempt.
second_error_handler(model_name, second_error) ==
  LET error_msg == lower(second_error)
  IN  IF Contains(error_msg, KwQuota) \/ Contains(error_msg, KwLimit)
        THEN [api_error |-> QuotaPrefix \o second_error, break |-> TRUE]
      ELSE IF Contains(error_msg, Kw404) \/ Contains(error_msg, KwNotFound)
        THEN [api_error |-> ModelPrefix \o model_name \o NotAvailable404,
              break |-> FALSE]
      ELSE [api_error |-> ErrorWithModel \o model_name \o ColonSpace \o second_error,
            break |-> FALSE]

\* after_first_attempt with the return forgotten: a text is stored and the
\* byte-buffer attempt is made all the same.
after_first_attempt_noreturn(ok, break) ==
  IF break THEN "fallback" ELSE "second_attempt"

\* after_first_attempt with the retry skipped after a failure.
after_first_attempt_noretry(ok, break) ==
  IF ok THEN "done" ELSE "fallback"

\* Where the call goes after the image-object attempt: `return
\* response.text`, `break`, or on into the nested try-block.
after_first_attempt(ok, break) ==
  IF ok THEN "done"
  ELSE IF break THEN "fallback"
  ELSE "second_attempt"

\* after_second_attempt with `continue` replaced by a retry of the
\* byte-buffer attempt.
after_second_attempt_retry(ok, break, last) ==
  IF ok THEN "done"
  ELSE IF break \/ last THEN "fallback"
  ELSE "second_attempt"

\* Where the call goes after the byte-buffer attempt: `return response.text`,
\* `break`, or `continue`, which leaves the loop after the last candidate.
after_second_attempt(ok, break, last) ==
  IF ok THEN "done"
  ELSE IF break \/ last THEN "fallback"
  ELSE "first_attempt"

(***************************************************************************)
(* analyze_image: the fallback path                                        *)
(***************************************************************************)

\* mentions_quota with the keyword test forgotten: any recorded error counts.
mentions_quota_any(err) == Truthy(err)

\* api_error and ("quota" in api_error.lower() or "limit" in api_error.lower())
mentions_quota(err) ==
  Truthy(err) /\ (Contains(lower(err), KwQuota) \/ Contains(lower(err), KwLimit))

\* api_error and ("permission" in api_error.lower() or "forbidden" in ...)
mentions_permission(err) ==
  Truthy(err)
    /\ (Contains(lower(err), KwPermission) \/ Contains(lower(err), KwForbidden))

\* One call of st.error, st.info or st.warning; the st.info lines of one
\* guidance block are one entry.
Shown(call, what, why) == [call |-> call, what |-> what, reason |-> why]

quota_guidance ==
  <<Shown("error", "Google AI API Quota Exceeded", None),
    Shown("info", "quota steps", None)>>

permission_guidance ==
  <<Shown("error", "API Key Permission Issue", None),
    Shown("info", "permission steps", None)>>

basic_warning ==
  <<Shown("warning", "AI image analysis not available", None)>>

sequence_warning(why) ==
  <<Shown("warning", "AI vision analysis not available", why)>>

\* What the fallback path shows before it builds its report.
fallback_messages(is_seq, why, err) ==
  IF is_seq
    THEN (IF mentions_quota(err) THEN quota_guidance ELSE <<>>)
           \o sequence_warning(why)
    ELSE IF mentions_quota(err) THEN quota_guidance \o basic_warning
    ELSE IF mentions_permission(err) THEN permission_guidance \o basic_warning
    ELSE basic_warning

\* The modes of the model that Image.blend accepts: images of 8-bit
\* channels without a palette, mode "1" excepted.
BlendModes == {"L", "LA", "RGB", "RGBA", "CMYK", "HSV"}

\* "float division by zero"
FloatDivisionByZero ==
  <<"f","l","o","a","t"," ","d","i","v","i","s","i","o","n"," ","b","y"," ","z","e","r","o">>

\* "image has wrong mode"
ImageHasWrongMode ==
  <<"i","m","a","g","e"," ","h","a","s"," ","w","r","o","n","g"," ","m","o","d","e">>

\* str(e) when the two enhancements of analyze_sequence_diagram raise, None
\* when they return.  ImageEnhance.Contrast(image) takes the mean of the
\* image's pixels (ZeroDivisionError for an image without pixels), and
\* enhance is Image.blend (ValueError for a mode it does not accept);
\* Sharpness on the image Contrast returned raises in no further case.
enhance_error(img) ==
  IF img.width * img.height = 0 THEN FloatDivisionByZero
  ELSE IF img.mode \notin BlendModes THEN ImageHasWrongMode
  ELSE None

\* What analyze_sequence_diagram shows: the message of its except branch.
sequence_diagram_messages(img) ==
  IF enhance_error(img) = None
    THEN <<>>
    ELSE <<Shown("error", "Error analyzing sequence diagram",
                 enhance_error(img))>>

\* analyze_sequence_diagram: the fixed template with the image size filled
\* in, or None when an enhancement raised.
analyze_sequence_diagram(img) ==
  IF enhance_error(img) = None
    THEN [kind |-> "sequence_diagram_analysis",
          width |-> img.width, height |-> img.height]
    ELSE [kind |-> "none"]

orientation_of(width, height) ==
  IF width > height THEN "Landscape"
  ELSE IF height > width THEN "Portrait"
  ELSE "Square"

\* size_category_of with the first bound inclusive.
size_category_of_small_inclusive(pixels) ==
  IF pixels <= 640 * 480 THEN "Small"
  ELSE IF pixels < 1920 * 1080 THEN "Medium"
  ELSE IF pixels < 4 * 1024 * 1024 THEN "Large"
  ELSE "Very Large"

\* size_category_of with the second bound inclusive.
size_category_of_medium_inclusive(pixels) ==
  IF pixels < 640 * 480 THEN "Small"
  ELSE IF pixels <= 1920 * 1080 THEN "Medium"
  ELSE IF pixels < 4 * 1024 * 1024 THEN "Large"
  ELSE "Very Large"

size_category_of(pixels) ==
  IF pixels < 640 * 480 THEN "Small"
  ELSE IF pixels < 1920 * 1080 THEN "Medium"
  ELSE IF pixels < 4 * 1024 * 1024 THEN "Large"
  ELSE "Very Large"

mode_descriptions ==
  [RGB |-> "Color image (Red, Green, Blue)",
   RGBA |-> "Color image with transparency",
   L |-> "Grayscale (Black and White)",
   P |-> "Palette-based color",
   CMYK |-> "CMYK color (for printing)",
   HSV |-> "HSV color space"]

color_info_of(mode) ==
  IF mode \in DOMAIN mode_descriptions
    THEN mode_descriptions[mode]
    ELSE "Unknown mode: " \o mode

\* recommendations_of with the bounds of the square format exclusive.
recommendations_of_exclusive(mode, aspect_ratio) ==
  (IF mode = "RGBA" THEN <<"Has transparent background">>
   ELSE IF mode = "L" THEN <<"Black and white image">>
   ELSE IF mode = "CMYK" THEN <<"Optimized for printing">>
   ELSE <<>>)
  \o
  (IF RatioGt(aspect_ratio, 15) THEN <<"Wide panoramic format">>
   ELSE IF RatioLt(aspect_ratio, 7) THEN <<"Tall vertical format">>
   ELSE IF RatioGt(aspect_ratio, 9) /\ RatioLt(aspect_ratio, 11)
     THEN <<"Square format">>
   ELSE <<>>)

recommendations_of(mode, aspect_ratio) ==
  (IF mode = "RGBA" THEN <<"Has transparent background">>
   ELSE IF mode = "L" THEN <<"Black and white image">>
   ELSE IF mode = "CMYK" THEN <<"Optimized for printing">>
   ELSE <<>>)
  \o
  (IF RatioGt(aspect_ratio, 15) THEN <<"Wide panoramic format">>
   ELSE IF RatioLt(aspect_ratio, 7) THEN <<"Tall vertical format">>
   ELSE IF ~RatioLt(aspect_ratio, 9) /\ ~RatioGt(aspect_ratio, 11)
     THEN <<"Square format">>
   ELSE <<>>)

\* The metadata report: the fields the template interpolates.  The lines
\* about the file format, the file type and the bit depth are not modelled.
basic_analysis(img) ==
  LET width == img.width
      height == img.height
      aspect_ratio == aspect_ratio_of(width, height)
      pixels == width * height
      recommendations == recommendations_of(img.mode, aspect_ratio)
  IN  [kind |-> "basic_analysis",
       width |-> width,
       height |-> height,
       pixels |-> pixels,
       aspect_ratio |-> aspect_ratio,
       orientation |-> orientation_of(width, height),
       size_category |-> size_category_of(pixels),
       color_info |-> color_info_of(img.mode),
       features |-> IF recommendations # <<>>
                      THEN recommendations
                      ELSE <<"Standard image format">>]

\* fallback_report without the sequence-diagram branch.
fallback_report_basic_only(is_seq, img) == basic_analysis(img)

\* What analyze_image returns when the loop ended without a text.
fallback_report(is_seq, img) ==
  IF is_seq THEN analyze_sequence_diagram(img) ELSE basic_analysis(img)

\* The text a remote attempt returned, as the value analyze_image returns.
remote_text(t) == [kind |-> "text", text |-> t]

NoResult == [kind |-> "none"]

(***************************************************************************)
(* main: configuration, upload, prompt, result                             *)
(***************************************************************************)

\* configure_genai with the test of the key forgotten.
configure_genai_unchecked(key) == [ok |-> TRUE, shown |-> <<>>]

\* configure_genai(): what it returns and what it shows, given the value of
\* os.getenv("GOOGLE_API_KEY").
configure_genai(key) ==
  IF ~Truthy(key)
    THEN [ok |-> FALSE,
          shown |-> <<Shown("error", "Google API Key not found!", None)>>]
    ELSE [ok |-> TRUE, shown |-> <<>>]

\* converted with only the RGBA branch.
converted_rgba_only(img) ==
  IF img.mode = "RGBA" THEN [img EXCEPT !.mode = "RGB"] ELSE img

\* The image main hands on: an RGBA image is pasted on a white RGB
\* background of the same size, any other mode than RGB and L is converted
\* to RGB.
converted(img) ==
  IF img.mode = "RGBA" THEN [img EXCEPT !.mode = "RGB"]
  ELSE IF img.mode \notin {"RGB", "L"} THEN [img EXCEPT !.mode = "RGB"]
  ELSE img

\* str(n) of a natural number.
Digits == <<"0","1","2","3","4","5","6","7","8","9">>

RECURSIVE decimal(_)
decimal(n) ==
  IF n < 10 THEN <<Digits[n + 1]>>
  ELSE decimal(n \div 10) \o <<Digits[(n % 10) + 1]>>

\* str(image.size): "(width, height)".
size_text(img) ==
  <<"(">> \o decimal(img.width) \o <<",", " ">> \o decimal(img.height)
    \o <<")">>

\* The formats of the uploaded files of the model, as texts.
format_names == [PNG |-> <<"P","N","G">>, JPEG |-> <<"J","P","E","G">>]

\* str(image.format) of the image main hands on: the format Image.open read
\* from the file when main kept the opened image, "None" when main replaced
\* it by an image the library built (the white background, convert('RGB')).
format_text(file) ==
  IF file.mode \in {"RGB", "L"}
    THEN format_names[file.format]
    ELSE <<"N","o","n","e">>

\* What main shows under the uploaded image.
image_info(file) ==
  <<Shown("info", "Image", file.name),
    Shown("info", "Size",
          size_text(converted([width |-> file.width, height |-> file.height,
                               mode |-> file.mode]))),
    Shown("info", "Format", format_text(file))>>

\* What the except-branch of main shows when the image cannot be opened.
open_error ==
  <<Shown("error", "Error opening image", None),
    Shown("error", "This image format might not be supported", None)>>

\* The prompt main passes to analyze_image.
resolved_prompt(option, custom) ==
  IF option = CustomPromptOption
    THEN IF Truthy(custom) THEN custom ELSE PromptDescribe
    ELSE option

\* result_truthy as `if result is not None:`.
result_truthy_not_none(r) == r.kind # "none"

\* `if result:` for the values analyze_image returns: None and the empty
\* text are falsy, a report is a non-empty text.
result_truthy(r) ==
  IF r.kind = "none" THEN FALSE
  ELSE IF r.kind = "text" THEN Truthy(r.text)
  ELSE TRUE

\* The file name of the download button.
download_name(name) == DownloadPrefix \o name \o DotTxt

(***************************************************************************)
(* State                                                                   *)
(***************************************************************************)

VARIABLES
  image,                \* the decoded image: [width, height, mode]
  prompt,               \* the prompt argument
  file_name,            \* the file_name argument, or None
  pc,                   \* where the call stands
  is_sequence_diagram,  \* local of analyze_image
  reason,               \* local of analyze_image
  candidate,            \* index in model_names_to_try of the loop's model_name
  api_error,            \* local of analyze_image: the recorded error, or None
  loop_exit,            \* how the candidate loop was left
  attempts,             \* the remote calls made so far, in order
  last_outcome,         \* what the latest remote call did
  shown,                \* the st.error / st.info / st.warning output
  result,               \* the value returned
  api_key,              \* the environment's GOOGLE_API_KEY, or None
  uploaded_file,        \* the value of the file uploader
  prompt_option,        \* the value of the prompt selectbox
  custom_prompt,        \* the value of the custom prompt text area
  displayed,            \* the result area of the page
  remote,               \* what the remote service will answer
  harness               \* the calls a caller makes one after the other

vars ==
  <<image, prompt, file_name, pc, is_sequence_diagram, reason, candidate,
    api_error, loop_exit, attempts, last_outcome, shown, result, api_key,
    uploaded_file, prompt_option, custom_prompt, displayed, remote, harness>>

\* The variables of main.
session_vars ==
  <<api_key, uploaded_file, prompt_option, custom_prompt, displayed>>

Locals ==
  /\ is_sequence_diagram = FALSE
  /\ reason = None
  /\ candidate = 1
  /\ api_error = None
  /\ loop_exit = "none"
  /\ attempts = <<>>
  /\ last_outcome = NoOutcome
  /\ shown = <<>>
  /\ result = NoResult

\* The variables of a caller that calls analyze_image several times.
harness_vars == <<remote, harness>>

\* One call, and a remote service that may answer anything.
NoHarness ==
  /\ remote = Unscripted
  /\ harness = NoCalls

\* No page: the function under study is called directly.
NoSession ==
  /\ api_key = ApiKeyValue
  /\ uploaded_file = NoFile
  /\ prompt_option = CustomPromptOption
  /\ custom_prompt = <<>>
  /\ displayed = NothingDisplayed

\* A call of analyze_image(image, prompt, file_name) is about to start.
Init ==
  /\ image \in {[width |-> s[1], height |-> s[2], mode |-> m] :
                  s \in ImageSizes, m \in Modes}
  /\ prompt \in Prompts
  /\ file_name \in FileNames
  /\ pc = "analyze"
  /\ Locals
  /\ NoSession
  /\ NoHarness

\* A call of detect_sequence_diagram(image, file_name) is about to start.
InitDetect ==
  /\ image \in [width : 0..MaxWidth, height : Heights, mode : {"RGB"}]
  /\ prompt = None
  /\ file_name \in PlainFileNames \cup KeywordFileNames
  /\ pc = "detect"
  /\ Locals
  /\ NoSession
  /\ NoHarness

\* A call of analyze_image is about to start, with every kind of prompt.
InitResolve ==
  /\ image \in {[width |-> s[1], height |-> s[2], mode |-> "RGB"] :
                  s \in ImageSizes}
  /\ prompt \in PlainPrompts \cup KeywordPrompts
  /\ file_name \in FileNames
  /\ pc = "analyze"
  /\ Locals
  /\ NoSession
  /\ NoHarness

\* A call of analyze_image is about to start, on three images and two file
\* names: what the candidate loop does depends on the remote outcomes and
\* on whether the image can be written as PNG.
InitLoop ==
  /\ image \in {[width |-> 600, height |-> 800, mode |-> "RGB"],
                [width |-> 600, height |-> 800, mode |-> "CMYK"],
                [width |-> 1920, height |-> 1080, mode |-> "RGB"]}
  /\ prompt = PromptDescribe
  /\ file_name \in {None, FileLoginSeq}
  /\ pc = "analyze"
  /\ Locals
  /\ NoSession
  /\ NoHarness

\* A caller is about to make the first of its three calls.
InitRuns ==
  /\ harness \in {[run |-> 1, first_call |-> a, other_call |-> b,
                   first_run |-> NoRun] : a \in FirstCalls, b \in OtherCalls}
  /\ image = harness.first_call.image
  /\ prompt = harness.first_call.prompt
  /\ file_name = harness.first_call.file_name
  /\ remote = harness.first_call.remote
  /\ pc = "analyze"
  /\ Locals
  /\ NoSession

\* A call of analyze_image is about to start whose first remote call will be
\* refused, with a quota or a permission error: it ends in the fallback path,
\* in the sequence-diagram branch for every image when the file name has a
\* keyword.
InitReport ==
  /\ image \in {[width |-> s[1], height |-> s[2], mode |-> m] :
                  s \in ReportSizes, m \in ReportModes}
  /\ prompt = None
  /\ file_name \in {None, FileLoginSeq}
  /\ remote \in RefusingScripts
  /\ harness = NoCalls
  /\ pc = "analyze"
  /\ Locals
  /\ NoSession

\* The page is opened: the first run of main is about to start.
InitMain ==
  /\ api_key \in ApiKeys
  /\ uploaded_file = NoFile
  /\ prompt_option = CustomPromptOption
  /\ custom_prompt = <<>>
  /\ displayed = NothingDisplayed
  /\ image = NoImage
  /\ prompt = None
  /\ file_name = None
  /\ pc = "startup"
  /\ Locals
  /\ NoHarness

(***************************************************************************)
(* Actions                                                                 *)
(***************************************************************************)

\* detect_sequence_diagram(image, file_name), called on its own.
DetectCall ==
  /\ pc = "detect"
  /\ LET detected == detect_sequence_diagram(image, file_name)
     IN  /\ is_sequence_diagram' = detected[1]
         /\ reason' = detected[2]
  /\ pc' = "detected"
  /\ UNCHANGED <<image, prompt, file_name, candidate, api_error, loop_exit,
                 attempts, last_outcome, shown, result>>
  /\ UNCHANGED session_vars
  /\ UNCHANGED harness_vars

\* AnalyzeImage with the loop taken up at the candidate the previous call
\* stopped at.
AnalyzeImage_resume ==
  /\ pc = "analyze"
  /\ LET resolved ==
           prompt_override(detect_sequence_diagram(image, file_name), prompt)
     IN  /\ is_sequence_diagram' = resolved[1]
         /\ reason' = resolved[2]
  /\ candidate' = candidate
  /\ api_error' = None
  /\ pc' = "first_attempt"
  /\ UNCHANGED <<image, prompt, file_name, loop_exit, attempts, last_outcome,
                 shown, result>>
  /\ UNCHANGED session_vars
  /\ UNCHANGED harness_vars

\* analyze_image up to the candidate loop: detection and prompt override.
AnalyzeImage ==
  /\ pc = "analyze"
  /\ LET resolved ==
           prompt_override(detect_sequence_diagram(image, file_name), prompt)
     IN  /\ is_sequence_diagram' = resolved[1]
         /\ reason' = resolved[2]
  /\ candidate' = 1
  /\ api_error' = None
  /\ pc' = "first_attempt"
  /\ UNCHANGED <<image, prompt, file_name, loop_exit, attempts, last_outcome,
                 shown, result>>
  /\ UNCHANGED session_vars
  /\ UNCHANGED harness_vars

model_name == model_names_to_try[candidate]

Attempt(payload) ==
  [model |-> model_name, payload |-> payload,
   prompt |-> prompt_sent(is_sequence_diagram, prompt)]

\* What the remote call about to be made can do.
AttemptOutcomes ==
  IF remote.scripted
    THEN {ScriptOutcome(remote, Len(attempts) + 1)}
    ELSE Outcomes

\* The try-block of one candidate: generate_content([prompt, image]) and,
\* when it raises, the handler of first_error.
FirstAttempt ==
  /\ pc = "first_attempt"
  /\ \E outcome \in AttemptOutcomes :
       /\ attempts' = Append(attempts, Attempt("image"))
       /\ last_outcome' = outcome
       /\ IF outcome.ok
            THEN /\ result' = remote_text(outcome.text)
                 /\ loop_exit' = "return"
                 /\ pc' = after_first_attempt(TRUE, FALSE)
                 /\ UNCHANGED api_error
            ELSE LET handled == first_error_handler(model_name, outcome.text)
                 IN  /\ api_error' = handled.api_error
                     /\ loop_exit' = IF handled.break THEN "break" ELSE loop_exit
                     /\ pc' = after_first_attempt(FALSE, handled.break)
                     /\ UNCHANGED result
  /\ UNCHANGED <<image, prompt, file_name, is_sequence_diagram, reason,
                 candidate, shown>>
  /\ UNCHANGED session_vars
  /\ UNCHANGED harness_vars

\* The handler of second_error and the `continue` after it, which takes the
\* next candidate or leaves the loop after the last one.
SecondError(error_msg) ==
  LET handled == second_error_handler(model_name, error_msg)
      last == candidate = Len(model_names_to_try)
  IN  /\ api_error' = handled.api_error
      /\ loop_exit' = IF handled.break THEN "break"
                      ELSE IF last THEN "exhausted"
                      ELSE loop_exit
      /\ pc' = after_second_attempt(FALSE, handled.break, last)
      /\ candidate' = IF handled.break \/ last THEN candidate
                      ELSE candidate + 1
      /\ UNCHANGED result

\* The nested try-block: image.save(..., format='PNG'), then
\* generate_content([prompt, img_bytes]).  When the image cannot be written
\* as PNG, image.save raises and no remote call is made; second_error is
\* then the error of image.save.
SecondAttempt ==
  /\ pc = "second_attempt"
  /\ IF image.mode \in PngModes
       THEN \E outcome \in AttemptOutcomes :
              /\ attempts' = Append(attempts, Attempt("img_bytes"))
              /\ last_outcome' = outcome
              /\ IF outcome.ok
                   THEN /\ result' = remote_text(outcome.text)
                        /\ loop_exit' = "return"
                        /\ pc' = after_second_attempt(TRUE, FALSE, FALSE)
                        /\ UNCHANGED <<api_error, candidate>>
                   ELSE SecondError(outcome.text)
       ELSE /\ SecondError(save_error(image.mode))
            /\ UNCHANGED <<attempts, last_outcome>>
  /\ UNCHANGED <<image, prompt, file_name, is_sequence_diagram, reason, shown>>
  /\ UNCHANGED session_vars
  /\ UNCHANGED harness_vars

\* After the loop: the guidance shown and the fallback report returned.
FallbackReport ==
  /\ pc = "fallback"
  /\ shown' = shown \o fallback_messages(is_sequence_diagram, reason, api_error)
                     \o (IF is_sequence_diagram
                           THEN sequence_diagram_messages(image)
                           ELSE <<>>)
  /\ result' = fallback_report(is_sequence_diagram, image)
  /\ pc' = "done"
  /\ UNCHANGED <<image, prompt, file_name, is_sequence_diagram, reason,
                 candidate, api_error, loop_exit, attempts, last_outcome>>
  /\ UNCHANGED session_vars
  /\ UNCHANGED harness_vars

\* One run of main from its first line, with the widget values given, up to
\* the call of analyze_image (clicked) or to its end.  A widget that the run
\* does not reach loses its value.
MainRun(file, option, custom, clicked) ==
  LET configured == configure_genai(api_key)
      opened == configured.ok /\ file # NoFile /\ file.readable
  IN  /\ uploaded_file' = IF configured.ok THEN file ELSE NoFile
      /\ prompt_option' = IF opened THEN option ELSE CustomPromptOption
      /\ custom_prompt' =
           IF opened /\ option = CustomPromptOption THEN custom ELSE <<>>
      /\ displayed' = NothingDisplayed
      /\ IF ~configured.ok
           THEN /\ shown' = configured.shown
                /\ pc' = "stopped"
                /\ UNCHANGED <<image, prompt, file_name>>
         ELSE IF file = NoFile
           THEN /\ shown' = <<>>
                /\ pc' = "idle"
                /\ image' = NoImage
                /\ prompt' = None
                /\ file_name' = None
         ELSE IF ~file.readable
           THEN /\ shown' = open_error
                /\ pc' = "idle"
                /\ image' = NoImage
                /\ prompt' = None
                /\ file_name' = None
         ELSE /\ shown' = image_info(file)
              /\ image' = converted([width |-> file.width,
                                     height |-> file.height,
                                     mode |-> file.mode])
              /\ prompt' = resolved_prompt(option, custom)
              /\ file_name' = file.name
              /\ pc' = IF clicked THEN "analyze" ELSE "idle"
      /\ UNCHANGED <<is_sequence_diagram, reason, candidate, api_error,
                     loop_exit, attempts, last_outcome, result, api_key>>
      /\ UNCHANGED harness_vars

\* The prompt widgets and the button are on the page.
ImageOpened == pc = "idle" /\ uploaded_file # NoFile /\ uploaded_file.readable

\* The page is opened.
Startup ==
  /\ pc = "startup"
  /\ MainRun(NoFile, CustomPromptOption, <<>>, FALSE)

\* The user uploads a file.
Upload ==
  /\ pc = "idle"
  /\ \E file \in UploadedFiles :
       MainRun(file, prompt_option, custom_prompt, FALSE)

\* The user chooses an entry of the selectbox.
SelectPrompt ==
  /\ ImageOpened
  /\ \E option \in PromptOptions :
       MainRun(uploaded_file, option, custom_prompt, FALSE)

\* The user types a custom prompt.
EnterPrompt ==
  /\ ImageOpened
  /\ prompt_option = CustomPromptOption
  /\ \E custom \in CustomPrompts :
       MainRun(uploaded_file, prompt_option, custom, FALSE)

\* The user clicks "Analyze Image".
ClickAnalyze ==
  /\ ImageOpened
  /\ MainRun(uploaded_file, prompt_option, custom_prompt, TRUE)

\* analyze_image has returned to main: the result area; the locals of
\* analyze_image are gone.
ShowResult ==
  /\ pc = "done"
  /\ displayed' = IF result_truthy(result)
                    THEN [kind |-> "analysis", result |-> result,
                          download |-> download_name(uploaded_file.name)]
                    ELSE NothingDisplayed
  /\ pc' = "idle"
  /\ is_sequence_diagram' = FALSE
  /\ reason' = None
  /\ candidate' = 1
  /\ api_error' = None
  /\ loop_exit' = "none"
  /\ attempts' = <<>>
  /\ last_outcome' = NoOutcome
  /\ result' = NoResult
  /\ UNCHANGED <<image, prompt, file_name, shown, api_key, uploaded_file,
                 prompt_option, custom_prompt>>
  /\ UNCHANGED harness_vars

\* What a run of analyze_image leaves: its locals, its calls, what it showed
\* and what it returned.
Snapshot ==
  [is_sequence_diagram |-> is_sequence_diagram, reason |-> reason,
   candidate |-> candidate, api_error |-> api_error, loop_exit |-> loop_exit,
   attempts |-> attempts, last_outcome |-> last_outcome, shown |-> shown,
   result |-> result]

\* analyze_image has returned and the caller calls it again: the other call
\* after the first run, the first call again after the second.  The locals
\* of the call that returned are left as they are.
CallAgain ==
  /\ pc = "done"
  /\ harness.run \in {1, 2}
  /\ LET call == IF harness.run = 1 THEN harness.other_call
                 ELSE harness.first_call
     IN  /\ image' = call.image
         /\ prompt' = call.prompt
         /\ file_name' = call.file_name
         /\ remote' = call.remote
  /\ harness' = [harness EXCEPT
                   !.run = @ + 1,
                   !.first_run = IF harness.run = 1 THEN Snapshot ELSE @]
  /\ pc' = "analyze"
  /\ attempts' = <<>>
  /\ last_outcome' = NoOutcome
  /\ loop_exit' = "none"
  /\ shown' = <<>>
  /\ result' = NoResult
  /\ UNCHANGED <<is_sequence_diagram, reason, candidate, api_error>>
  /\ UNCHANGED session_vars

Next == AnalyzeImage \/ FirstAttempt \/ SecondAttempt \/ FallbackReport

Spec == Init /\ [][Next]_vars

\* analyze_image is straight-line code run by one thread: while a step is
\* left, it is taken.  Every remote call is taken to return or to raise.
FairSpec == InitLoop /\ [][Next]_vars /\ WF_vars(Next)

NextDetect == DetectCall

SpecDetect == InitDetect /\ [][NextDetect]_vars

\* The classification step of analyze_image alone.
NextResolve == AnalyzeImage

SpecResolve == InitResolve /\ [][NextResolve]_vars

NextReport == AnalyzeImage \/ FirstAttempt \/ FallbackReport

SpecReport == InitReport /\ [][NextReport]_vars

NextMain ==
  \/ Startup
  \/ Upload
  \/ SelectPrompt
  \/ EnterPrompt
  \/ ClickAnalyze
  \/ AnalyzeImage
  \/ FirstAttempt
  \/ SecondAttempt
  \/ FallbackReport
  \/ ShowResult

SpecMain == InitMain /\ [][NextMain]_vars

NextRuns ==
  \/ AnalyzeImage
  \/ FirstAttempt
  \/ SecondAttempt
  \/ FallbackReport
  \/ CallAgain

SpecRuns == InitRuns /\ [][NextRuns]_vars

(***************************************************************************)
(* Vocabulary of the properties                                            *)
(***************************************************************************)

HasQuotaKeyword(msg) ==
  Contains(lower(msg), KwQuota) \/ Contains(lower(msg), KwLimit)

Has404Keyword(msg) ==
  Contains(lower(msg), Kw404) \/ Contains(lower(msg), KwNotFound)

HasPermissionKeyword(msg) ==
  Contains(lower(msg), KwPermission) \/ Contains(lower(msg), KwForbidden)

\* The error classes of the design: first match in the order quota, 404,
\* permission, other.
ErrorClass(msg) ==
  IF HasQuotaKeyword(msg) THEN "quota-exceeded"
  ELSE IF Has404Keyword(msg) THEN "model-unavailable"
  ELSE IF HasPermissionKeyword(msg) THEN "permission-denied"
  ELSE "other"

TerminalClasses == {"quota-exceeded", "permission-denied"}

\* This step makes a remote attempt with the given payload.
AttemptStep(payload) ==
  /\ Len(attempts') = Len(attempts) + 1
  /\ attempts'[Len(attempts')].payload = payload

\* This step makes a remote attempt with the given payload, and it raises.
FailedStep(payload) == AttemptStep(payload) /\ ~last_outcome'.ok

LastAttempt == attempts[Len(attempts)]

(***************************************************************************)
(* Properties                                                              *)
(***************************************************************************)

\* C1: the first remote attempt that returns text ends the run: the call is
\* done with that text as its result, and once a text is the result no
\* further attempt is made and the result stays.
C1_FirstTextEndsRun ==
  [][ /\ (Len(attempts') > Len(attempts) /\ last_outcome'.ok)
           => /\ pc' = "done"
              /\ result' = [kind |-> "text", text |-> last_outcome'.text]
      /\ result.kind = "text" => (attempts' = attempts /\ result' = result)
    ]_vars

\* Outcomes [fail-404, fail-404, success]: the third attempt's text is
\* returned after exactly three attempts.
C1_Witness ==
  /\ pc = "done"
  /\ Len(attempts) = 3
  /\ last_outcome = [ok |-> TRUE, text |-> TextAnswer]
  /\ result = [kind |-> "text", text |-> TextAnswer]
  /\ LastAttempt.model = model_names_to_try[2]

\* C2: an image-object attempt that fails with a quota-exceeded or
\* permission-denied error leaves the loop at once, recording that error,
\* and after such a break no further attempt is made.
C2_FirstTerminalAborts ==
  [][ /\ (FailedStep("image") /\ ErrorClass(last_outcome'.text) \in TerminalClasses)
           => /\ pc' = "fallback"
              /\ loop_exit' = "break"
              /\ api_error' = IF ErrorClass(last_outcome'.text) = "quota-exceeded"
                                THEN QuotaPrefix \o last_outcome'.text
                                ELSE PermissionText
      /\ loop_exit = "break" => attempts' = attempts
    ]_vars

\* Outcomes [fail-quota, ...]: the run is over after the single attempt on
\* the first candidate, with the quota error recorded.
C2_Witness ==
  /\ pc = "done"
  /\ loop_exit = "break"
  /\ Len(attempts) = 1
  /\ last_outcome = [ok |-> FALSE, text |-> ErrQuota]
  /\ api_error = QuotaPrefix \o ErrQuota

NonTerminalClasses == {"model-unavailable", "other"}

LastModel == model_names_to_try[Len(model_names_to_try)]

\* Every entry of a guidance block has been shown.
ShownAll(guidance) ==
  \A i \in DOMAIN guidance : \E j \in DOMAIN shown : shown[j] = guidance[i]

\* C3: a byte-buffer attempt that fails with a quota-exceeded or
\* permission-denied error leaves the loop at once; any other failure of it
\* moves on to the next candidate.
C3_SecondTerminalAborts ==
  [][ /\ (FailedStep("img_bytes")
            /\ ErrorClass(last_outcome'.text) \in TerminalClasses)
           => (pc' = "fallback" /\ loop_exit' = "break")
      /\ (FailedStep("img_bytes")
            /\ ErrorClass(last_outcome'.text) \in NonTerminalClasses
            /\ candidate < Len(model_names_to_try))
           => (pc' = "first_attempt" /\ candidate' = candidate + 1)
    ]_vars

\* C4: an image-object attempt that fails as model-unavailable or other is
\* followed by the byte-buffer attempt on the same candidate, and when that
\* one fails the same way on a candidate that is not the last, the next
\* candidate's image-object attempt follows.
C4_NonTerminalContinues ==
  [][ /\ (FailedStep("image")
            /\ ErrorClass(last_outcome'.text) \in NonTerminalClasses)
           => /\ pc' = "second_attempt"
              /\ candidate' = candidate
              /\ loop_exit' = "none"
      /\ pc = "second_attempt"
           => /\ AttemptStep("img_bytes")
              /\ LastAttempt.payload = "image"
              /\ attempts'[Len(attempts')].model = LastAttempt.model
      /\ (FailedStep("img_bytes")
            /\ ErrorClass(last_outcome'.text) \in NonTerminalClasses
            /\ candidate < Len(model_names_to_try))
           => /\ pc' = "first_attempt"
              /\ candidate' = candidate + 1
              /\ loop_exit' = "none"
      /\ pc = "first_attempt"
           => /\ AttemptStep("image")
              /\ attempts'[Len(attempts')].model = model_names_to_try[candidate]
    ]_vars

\* Both attempts on the first candidate failed without ending the loop (the
\* second with an unclassified error) and the second candidate was attempted.
C4_Witness ==
  /\ Len(attempts) = 3
  /\ attempts[1].payload = "image" /\ attempts[1].model = model_names_to_try[1]
  /\ attempts[2].payload = "img_bytes" /\ attempts[2].model = model_names_to_try[1]
  /\ attempts[3].payload = "image" /\ attempts[3].model = model_names_to_try[2]
  /\ last_outcome = [ok |-> FALSE, text |-> ErrOther]
  /\ pc = "second_attempt"

\* C5: a call that ends without a text from a remote attempt (the loop was
\* left by a break or after the last candidate) returns a report: the
\* sequence-diagram template when is_sequence_diagram, else the metadata
\* report, each for the size of the image.
C5_FallbackReportReturned ==
  (pc = "done" /\ loop_exit # "return")
    => /\ loop_exit \in {"break", "exhausted"}
       /\ result.kind =
            (IF is_sequence_diagram THEN "sequence_diagram_analysis"
             ELSE "basic_analysis")
       /\ result.width = image.width
       /\ result.height = image.height

\* All candidates failed for an image that only the prompt made a sequence
\* diagram, and the template was returned.
C5_Witness ==
  /\ pc = "done"
  /\ loop_exit = "exhausted"
  /\ Len(attempts) = 2 * Len(model_names_to_try)
  /\ reason = ReasonPrompt
  /\ result.kind = "sequence_diagram_analysis"

\* C6: after a break on a quota-exceeded error the quota guidance has been
\* shown, and after a break on a permission-denied error the permission
\* guidance has been shown, whatever the classification of the image.
C6_GuidanceShown ==
  (pc = "done" /\ loop_exit = "break")
    => /\ ErrorClass(last_outcome.text) = "quota-exceeded"
            => ShownAll(quota_guidance)
       /\ ErrorClass(last_outcome.text) = "permission-denied"
            => ShownAll(permission_guidance)

\* C7: after a failed attempt of either kind the recorded error and the
\* exit of the loop follow the first match on the lowercased message: a
\* quota keyword gives the quota error and a break whatever else the message
\* holds; without one, a 404 keyword gives model-unavailable and no break,
\* also next to a permission keyword; without either, a permission keyword
\* gives the permission error and a break; anything else is other.
C7_FirstMatchOrder ==
  [][ \A payload \in {"image", "img_bytes"} :
        FailedStep(payload) =>
          LET msg == last_outcome'.text
              name == model_names_to_try[candidate]
              none == ~HasQuotaKeyword(msg) /\ ~Has404Keyword(msg)
                        /\ ~HasPermissionKeyword(msg)
              other_text == ErrorWithModel \o name \o ColonSpace \o msg
          IN  /\ HasQuotaKeyword(msg)
                   => /\ loop_exit' = "break"
                      /\ api_error' = QuotaPrefix \o msg
              /\ (~HasQuotaKeyword(msg) /\ Has404Keyword(msg))
                   => /\ loop_exit' # "break"
                      /\ api_error' =
                           ModelPrefix \o name \o
                             (IF payload = "image" THEN NotAvailableTrying
                              ELSE NotAvailable404)
              /\ (~HasQuotaKeyword(msg) /\ ~Has404Keyword(msg)
                    /\ HasPermissionKeyword(msg))
                   => /\ loop_exit' = "break"
                      /\ api_error' = PermissionText
              /\ none => (loop_exit' # "break" /\ api_error' = other_text)
    ]_vars

\* An image-object attempt raised "404 Forbidden" and was recorded as
\* model-unavailable, the byte-buffer attempt being next.
C7_Witness ==
  /\ pc = "second_attempt"
  /\ candidate = 1
  /\ last_outcome = [ok |-> FALSE, text |-> Err404Forbidden]
  /\ api_error = ModelPrefix \o model_names_to_try[1] \o NotAvailableTrying

\* C8: when the loop ends after the last candidate, the recorded error is
\* the one of the byte-buffer attempt on that candidate; and every failed
\* attempt replaces the recorded error by one made from its own model name
\* and message.
C8_LastErrorRecorded ==
  /\ [](loop_exit = "exhausted"
          => /\ Len(attempts) = 2 * Len(model_names_to_try)
             /\ LastAttempt.payload = "img_bytes"
             /\ LastAttempt.model = LastModel
             /\ ~last_outcome.ok
             /\ api_error =
                  (IF Has404Keyword(last_outcome.text)
                     THEN ModelPrefix \o LastModel \o NotAvailable404
                     ELSE ErrorWithModel \o LastModel \o ColonSpace
                            \o last_outcome.text))
  /\ [][ \A payload \in {"image", "img_bytes"} :
            FailedStep(payload) =>
              LET msg == last_outcome'.text
                  name == model_names_to_try[candidate]
              IN  api_error' \in
                    {QuotaPrefix \o msg,
                     PermissionText,
                     ModelPrefix \o name \o NotAvailableTrying,
                     ModelPrefix \o name \o NotAvailable404,
                     ErrorWithModel \o name \o ColonSpace \o msg}
        ]_vars

\* Every candidate failed, the last attempt with "Model Not Found" after an
\* image-object attempt that recorded a different text.
C8_Witness ==
  /\ loop_exit = "exhausted"
  /\ last_outcome = [ok |-> FALSE, text |-> ErrNotFound]
  /\ api_error = ModelPrefix \o LastModel \o NotAvailable404

\* C9: for a file name that holds one of the eight keywords (in any case),
\* detect_sequence_diagram answers positive with the file-name reason,
\* whatever the width and the height.
C9_FileNameKeywordWins ==
  (pc = "detected" /\ file_name \in KeywordFileNames)
    => (is_sequence_diagram /\ reason = ReasonFilename)

\* A keyword file name ("Message Flow.png") on an image that the wide-format
\* test would accept.
C9_Witness ==
  /\ pc = "detected"
  /\ file_name = FileMessageFlow
  /\ image.width = 304
  /\ image.height = 201
  /\ is_sequence_diagram
  /\ reason = ReasonFilename

\* C10: for a file name that is absent or holds no keyword the answer is
\* decided by the size alone: wide format iff width/height > 1.5 and
\* height > 200, else technical diagram iff width/height > 1.2 and
\* height > 150, else negative; height 200 is never wide format, 304 x 201
\* is, and height 0 is negative.
C10_SizeHeuristics ==
  (pc = "detected" /\ file_name \in PlainFileNames)
    => LET w == image.width
           h == image.height
           wide == h > 200 /\ 2 * w > 3 * h
           technical == h > 150 /\ 5 * w > 6 * h
       IN  /\ <<is_sequence_diagram, reason>> =
                (IF wide THEN <<TRUE, ReasonWide>>
                 ELSE IF technical THEN <<TRUE, ReasonTechnical>>
                 ELSE <<FALSE, None>>)
           /\ h = 200 => reason # ReasonWide
           /\ (h = 201 /\ w = 304) => reason = ReasonWide
           /\ h = 0 => ~is_sequence_diagram

\* 304 x 201 (ratio 1.51) under a file name without keyword is wide format.
C10_Witness ==
  /\ pc = "detected"
  /\ file_name = FilePhoto
  /\ image.width = 304
  /\ image.height = 201
  /\ <<is_sequence_diagram, reason>> = <<TRUE, ReasonWide>>

(***************************************************************************)
(* C11: the prompt override only upgrades.  Once analyze_image has         *)
(* classified the image, a positive detection is kept with its own reason, *)
(* and a negative detection has become positive, with the reason "User     *)
(* prompt suggests sequence diagram", exactly when the prompt holds one of *)
(* the eight prompt keywords in any letter case; otherwise it stays        *)
(* negative with no reason.                                                *)
(***************************************************************************)
C11_OverrideOnlyUpgrades ==
  pc = "first_attempt" =>
    LET detected == detect_sequence_diagram(image, file_name)
        has_keyword == prompt \in KeywordPrompts
    IN  /\ detected[1] => <<is_sequence_diagram, reason>> = detected
        /\ ~detected[1] /\ has_keyword =>
             <<is_sequence_diagram, reason>> = <<TRUE, ReasonPrompt>>
        /\ ~detected[1] /\ ~has_keyword =>
             <<is_sequence_diagram, reason>> = <<FALSE, None>>

\* A keyword prompt with an image already detected by its file name: the
\* classification stays positive with the file name's reason.
C11_Witness ==
  /\ pc = "first_attempt"
  /\ file_name = FileLoginSeq
  /\ prompt = PromptUml
  /\ <<is_sequence_diagram, reason>> = <<TRUE, ReasonFilename>>

(***************************************************************************)
(* C12: every remote call of a run, with the image object or with the byte *)
(* buffer and whatever the candidate, was sent the specialized prompt when *)
(* the image is classified as a sequence diagram and the caller's prompt   *)
(* otherwise; all the calls of a run were sent the same prompt.            *)
(***************************************************************************)
C12_PromptChoiceFixed ==
  \A i \in DOMAIN attempts :
    /\ is_sequence_diagram => attempts[i].prompt = specialized_prompt
    /\ ~is_sequence_diagram => attempts[i].prompt = prompt
    /\ attempts[i].prompt = attempts[1].prompt

\* The byte-buffer call of the second candidate, after three failures, for
\* an image classified by the prompt alone: the specialized prompt is sent.
C12_Witness ==
  /\ Len(attempts) = 4
  /\ attempts[4].payload = "img_bytes"
  /\ attempts[4].model = model_names_to_try[2]
  /\ prompt = PromptLifeline
  /\ reason = ReasonPrompt
  /\ attempts[4].prompt = specialized_prompt

\* analyze_image has returned the metadata report.
MetadataReported == pc = "done" /\ result.kind = "basic_analysis"

(***************************************************************************)
(* C13: the size category of the metadata report is a function of the     *)
(* pixel count width * height alone: "Small" exactly below 307200,         *)
(* "Medium" exactly from 307200 to 2073599, "Large" exactly from 2073600   *)
(* to 4194303, and "Very Large" exactly from 4194304 on.                   *)
(***************************************************************************)
C13_SizeCategoryBands ==
  MetadataReported =>
    LET pixels == image.width * image.height
        category == result.size_category
    IN  /\ result.pixels = pixels
        /\ category = "Small" <=> pixels < 307200
        /\ category = "Medium" <=> 307200 =< pixels /\ pixels < 2073600
        /\ category = "Large" <=> 2073600 =< pixels /\ pixels < 4194304
        /\ category = "Very Large" <=> pixels >= 4194304

\* 480 x 640 has the first pixel count that is no longer "Small".
C13_Witness ==
  /\ MetadataReported
  /\ image.width = 480
  /\ image.height = 640
  /\ result.pixels = 307200
  /\ result.size_category = "Medium"

(***************************************************************************)
(* C14: the fallback path returns, for a 1920 x 1080 RGB image, the        *)
(* metadata report, with the orientation "Landscape" and the size category *)
(* "Medium".  It returns the sequence-diagram template instead: the image  *)
(* is classified as a wide-format sequence diagram.                        *)
(***************************************************************************)
C14_FullHdMedium ==
  (pc = "done" /\ image = [width |-> 1920, height |-> 1080, mode |-> "RGB"])
    => /\ result.kind = "basic_analysis"
       /\ result.orientation = "Landscape"
       /\ result.size_category = "Medium"

\* C14 as the code has it: for a 1920 x 1080 RGB image the fallback path
\* returns the sequence-diagram template (of a wide-format image, when the
\* file name has no keyword), and never the metadata report; the metadata
\* report of an image of 1920 * 1080 pixels that is not classified as a
\* diagram has the size category "Large".
C14_FullHdSequenceTemplate ==
  /\ (pc = "done"
        /\ image = [width |-> 1920, height |-> 1080, mode |-> "RGB"])
       => /\ reason \in {ReasonFilename, ReasonWide}
          /\ file_name = None => reason = ReasonWide
          /\ result = [kind |-> "sequence_diagram_analysis",
                       width |-> 1920, height |-> 1080]
  /\ (MetadataReported /\ image.width * image.height = 1920 * 1080)
       => /\ result.size_category = "Large"
          /\ ~(image.width = 1920 /\ image.height = 1080)

\* The fallback path has returned for the 1920 x 1080 RGB image.
C14_Witness ==
  /\ pc = "done"
  /\ image = [width |-> 1920, height |-> 1080, mode |-> "RGB"]
  /\ loop_exit = "break"
  /\ result.kind = "sequence_diagram_analysis"

\* The recommendations about the colour mode and about the format.
ColourEntries ==
  {"Has transparent background", "Black and white image",
   "Optimized for printing"}

FormatEntries ==
  {"Wide panoramic format", "Tall vertical format", "Square format"}

Listed(entry) == \E i \in DOMAIN result.features : result.features[i] = entry

(***************************************************************************)
(* C15: the list of the metadata report holds at most one entry about the  *)
(* colour mode (transparency for RGBA, black and white for L, printing for *)
(* CMYK) and at most one about the format: wide when width / height is     *)
(* above 1.5, tall when it is below 0.7, square when it is from 0.9 to 1.1 *)
(* inclusive, none otherwise, an image of height 0 counting as ratio 1.    *)
(* "Standard image format" is listed exactly when there is no such entry.  *)
(***************************************************************************)
C15_RecommendationList ==
  MetadataReported =>
    LET w == IF image.height > 0 THEN image.width ELSE 1
        h == IF image.height > 0 THEN image.height ELSE 1
        entries == result.features
        positions(S) == {i \in DOMAIN entries : entries[i] \in S}
    IN  /\ Cardinality(positions(ColourEntries)) =< 1
        /\ Cardinality(positions(FormatEntries)) =< 1
        /\ Listed("Has transparent background") <=> image.mode = "RGBA"
        /\ Listed("Black and white image") <=> image.mode = "L"
        /\ Listed("Optimized for printing") <=> image.mode = "CMYK"
        /\ Listed("Wide panoramic format") <=> 10 * w > 15 * h
        /\ Listed("Tall vertical format") <=> 10 * w < 7 * h
        /\ Listed("Square format") <=> 9 * h =< 10 * w /\ 10 * w =< 11 * h
        /\ Listed("Standard image format") <=>
             positions(ColourEntries \cup FormatEntries) = {}
        /\ Listed("Standard image format") => Len(entries) = 1

\* A grayscale image of ratio exactly 0.9: one entry of each kind.
C15_Witness ==
  /\ MetadataReported
  /\ image = [width |-> 9, height |-> 10, mode |-> "L"]
  /\ result.features = <<"Black and white image", "Square format">>

(***************************************************************************)
(* C16: with GOOGLE_API_KEY unset or empty, the first run of the page      *)
(* stops at the configuration step with the error "Google API Key not      *)
(* found!" and nothing else follows: no file is taken from the uploader,   *)
(* no image is opened, analyze_image is not called, no remote call is      *)
(* made and no result is displayed.                                        *)
(***************************************************************************)
C16_NoKeyHalts ==
  ~Truthy(api_key) =>
    /\ pc \in {"startup", "stopped"}
    /\ pc = "stopped" =>
         shown = <<Shown("error", "Google API Key not found!", None)>>
    /\ uploaded_file = NoFile
    /\ image = NoImage
    /\ attempts = <<>>
    /\ result = NoResult
    /\ displayed = NothingDisplayed
    /\ ~ENABLED (Upload \/ SelectPrompt \/ EnterPrompt \/ ClickAnalyze
                   \/ AnalyzeImage \/ FirstAttempt \/ SecondAttempt)

\* The page has stopped on an empty key.
C16_Witness ==
  /\ api_key = <<>>
  /\ pc = "stopped"
  /\ shown # <<>>

\* Where a call of analyze_image stands, from its first line to its return.
InAnalyzeImage ==
  pc \in {"analyze", "first_attempt", "second_attempt", "fallback", "done"}

(***************************************************************************)
(* C20: on every analysis started from the page, the image analyze_image   *)
(* works on has the mode RGB or L, whatever the mode of the uploaded file; *)
(* hence a metadata report returned to the page, or displayed by it, never *)
(* lists "Has transparent background" or "Optimized for printing".         *)
(***************************************************************************)
C20_ModeRgbOrL ==
  LET unlisted(report) ==
        report.kind = "basic_analysis" =>
          \A i \in DOMAIN report.features :
            report.features[i] \notin
              {"Has transparent background", "Optimized for printing"}
  IN  /\ InAnalyzeImage => image.mode \in {"RGB", "L"}
      /\ InAnalyzeImage => unlisted(result)
      /\ displayed.kind = "analysis" => unlisted(displayed.result)

\* The metadata report of an uploaded CMYK file: no entry about printing.
C20_Witness ==
  /\ pc = "done"
  /\ uploaded_file.mode = "CMYK"
  /\ image.mode = "RGB"
  /\ result.kind = "basic_analysis"
  /\ result.features = <<"Standard image format">>

\* The place of a model name in model_names_to_try.
CandidateOf(name) ==
  CHOOSE k \in DOMAIN model_names_to_try : model_names_to_try[k] = name

(***************************************************************************)
(* C18: every run of analyze_image ends, after at most 12 remote calls.    *)
(* The calls visit the candidates in list order, none skipped and none     *)
(* revisited: the first call goes to the first candidate with the image    *)
(* object, and every later call is either the byte-buffer call of the      *)
(* candidate whose image-object call came just before, or the image-object *)
(* call of the next candidate; so each candidate gets at most two calls,   *)
(* the image object first.  A byte-buffer call is made only right after    *)
(* the failed image-object call of the same candidate, and a further call  *)
(* only when the latest call has failed.                                   *)
(***************************************************************************)
C18_BoundedOrderedAttempts ==
  /\ [](/\ Len(attempts) =< 12
        /\ \A i \in DOMAIN attempts :
             IF i = 1
               THEN /\ attempts[i].model = model_names_to_try[1]
                    /\ attempts[i].payload = "image"
               ELSE \/ /\ attempts[i].payload = "img_bytes"
                       /\ attempts[i - 1].payload = "image"
                       /\ attempts[i].model = attempts[i - 1].model
                    \/ /\ attempts[i].payload = "image"
                       /\ CandidateOf(attempts[i].model) =
                            CandidateOf(attempts[i - 1].model) + 1)
  /\ [][ /\ AttemptStep("img_bytes") =>
              /\ attempts # <<>>
              /\ LastAttempt.payload = "image"
              /\ LastAttempt.model = attempts'[Len(attempts')].model
              /\ ~last_outcome.ok
         /\ AttemptStep("image") /\ attempts # <<>> => ~last_outcome.ok
         /\ Len(attempts') \in {Len(attempts), Len(attempts) + 1}
       ]_vars
  /\ <>(pc = "done")

\* All six candidates have failed twice: twelve calls, the last one with the
\* byte buffer on the last candidate.
C18_Witness ==
  /\ pc = "done"
  /\ loop_exit = "exhausted"
  /\ Len(attempts) = 12
  /\ attempts[11] = [model |-> LastModel, payload |-> "image",
                     prompt |-> attempts[1].prompt]
  /\ attempts[12].payload = "img_bytes"

\* An entry of the quota guidance is on the page.
QuotaGuidanceShown ==
  \E i \in DOMAIN quota_guidance : \E j \in DOMAIN shown :
    shown[j] = quota_guidance[i]

(***************************************************************************)
(* C19: the fallback path shows the quota guidance exactly when the loop   *)
(* was left by the break of a quota-classified error, on the image-object  *)
(* or on the byte-buffer call.  The error text recorded for a failure of   *)
(* any other class holds neither "quota" nor "limit" in any letter case,   *)
(* so a run whose candidates all failed with other errors does not show    *)
(* it; and nothing shows it before the fallback path.                      *)
(***************************************************************************)
C19_QuotaGuidanceOnlyOnQuota ==
  LET quota_break ==
        loop_exit = "break" /\ ErrorClass(last_outcome.text) = "quota-exceeded"
  IN  /\ (attempts # <<>> /\ ~last_outcome.ok
            /\ ErrorClass(last_outcome.text) # "quota-exceeded")
           => /\ api_error # None
              /\ ~Contains(lower(api_error), KwQuota)
              /\ ~Contains(lower(api_error), KwLimit)
      /\ (pc = "done" /\ loop_exit \in {"break", "exhausted"})
           => (QuotaGuidanceShown <=> quota_break)
      /\ (pc = "done" /\ loop_exit = "exhausted") => ~QuotaGuidanceShown
      /\ pc # "done" => ~QuotaGuidanceShown
      /\ loop_exit = "return" => ~QuotaGuidanceShown

\* A quota error on the byte-buffer call of the third candidate: the loop is
\* left and the fallback path shows the quota guidance.
C19_Witness ==
  /\ pc = "done"
  /\ loop_exit = "break"
  /\ Len(attempts) = 6
  /\ LastAttempt.payload = "img_bytes"
  /\ last_outcome = [ok |-> FALSE, text |-> ErrLimit]
  /\ ShownAll(quota_guidance)

(***************************************************************************)
(* C17: runs of analyze_image are independent and deterministic.  A caller *)
(* makes a call, then another call with another image, file name, prompt   *)
(* and remote answers, then the first call again against the same remote   *)
(* answers: the third run ends as the first did, with the same             *)
(* classification and reason, the same remote calls, the same recorded     *)
(* error, the same messages and the same returned text or report, whatever *)
(* the first two runs left behind.                                         *)
(***************************************************************************)
C17_RunsIndependent ==
  (pc = "done" /\ harness.run = 3) => Snapshot = harness.first_run

\* The metadata report after all twelve calls failed, returned a second time
\* after a run that was left on a quota error for another image.
C17_Witness ==
  /\ pc = "done"
  /\ harness.run = 3
  /\ harness.other_call.remote.failures = 3
  /\ harness.first_run.loop_exit = "exhausted"
  /\ harness.first_run.result.kind = "basic_analysis"
  /\ result = harness.first_run.result
  /\ Len(attempts) = 12

(***************************************************************************)
(* C21: after a click on "Analyze Image" the page shows the result and its *)
(* download, named image_analysis_<name of the uploaded file>.txt, exactly *)
(* when analyze_image returned a non-empty text (a remote text or a        *)
(* report); the result area shows nothing at any other time.  A remote     *)
(* call that returns the empty text ends the run with that text: no        *)
(* further call and no fallback report follows, and nothing is shown.      *)
(***************************************************************************)
C21_ResultShownWhenNonEmpty ==
  [][ LET empty_text == [kind |-> "text", text |-> <<>>]
          returned == pc = "done" /\ pc' # "done"
          non_empty == result # NoResult /\ result # empty_text
      IN  /\ (returned /\ non_empty) =>
                displayed' =
                  [kind |-> "analysis", result |-> result,
                   download |-> DownloadPrefix \o uploaded_file.name \o DotTxt]
          /\ (returned /\ ~non_empty) => displayed' = NothingDisplayed
          /\ ~returned => displayed' = NothingDisplayed
          /\ (Len(attempts') > Len(attempts) /\ last_outcome'.ok
                /\ last_outcome'.text = <<>>)
               => (pc' = "done" /\ result' = empty_text)
          /\ (pc = "done" /\ result = empty_text)
               => (pc' = "idle" /\ attempts' = <<>> /\ shown' = shown
                     /\ displayed' = NothingDisplayed)
    ]_vars

\* The text of the remote service is on the page of photo.png, with the
\* download image_analysis_photo.png.txt.
C21_Witness ==
  /\ pc = "idle"
  /\ uploaded_file.name = FilePhoto
  /\ displayed.kind = "analysis"
  /\ displayed.result = [kind |-> "text", text |-> TextAnswer]
  /\ displayed.download =
       <<"i","m","a","g","e","_","a","n","a","l","y","s","i","s","_",
         "p","h","o","t","o",".","p","n","g",".","t","x","t">>

=============================================================================
